---- MODULE Spec2Model ----
(***************************************************************************)
(* The session relay of src/src/server.ts (the first, most complete        *)
(* variant, lines 1-680): the session store, the client-leg registry, the  *)
(* controller set, the message handlers, the socket close handler, the     *)
(* delayed deletion and the periodic sweep.  Node runs every handler and   *)
(* every timer callback to completion on one thread, so each is one        *)
(* atomic action.                                                          *)
(***************************************************************************)
EXTENDS Integers, Sequences, FiniteSets, TLC

VARIABLES
    sessions,        \* Map<string, Session>: a function on the ids present
    connections,     \* Map<string, WebSocket>: a function on the ids present
    botConnections,  \* Set<WebSocket>
    sockets,         \* per socket: readyState, and the ad hoc isBot / sessionId
    timers,          \* pending setTimeout callbacks of handleTransactionResult
    nextSweep,       \* earliest time of the next setInterval sweep callback
    now,             \* the clock, in milliseconds since startServer
    last,            \* the event handled by the last step
    sent,            \* the frames sent by the last step, in sending order
    hist,            \* history per session id (see HistInit)
    acted,           \* the sockets that have caused an event so far
    limit,           \* the number of events explored in one run
    walletWebSocketClient,  \* the controller-side WalletWebSocketClient
    steps            \* number of events so far (frames that changed the relay's
                     \* state, sockets leaving OPEN, clock advances)

vars == <<sessions, connections, botConnections, sockets, timers, nextSweep,
          now, last, sent, hist, acted, limit, steps, walletWebSocketClient>>

\* the state of the relay proper
Relay == <<sessions, connections, botConnections, sockets, timers>>

\* last and sent only observe a step.  A frame that leaves the relay's state
\* as it was (a rejected frame, a ping) is observed in last and sent, and the
\* observation is then forgotten (Forget) before the run goes on: the run goes
\* on from the same relay state, and the model checker does not explore it
\* once per way of having observed it.
NoEffectObserved == last.kind = "message" /\ ~last.changed
Observing == ~NoEffectObserved

-----------------------------------------------------------------------------
(* Bounds of the model *)

MaxSteps == 3          \* events in one run of Spec (see steps)
MaxFrames == 5         \* events in one run of SpecFrames
MaxClockSteps == 4     \* events in one run of SpecClock
MaxBroadcastSteps == 5 \* events in one run of SpecBroadcast
MaxBindingSteps == 5   \* events in one run of SpecBinding
MaxDispatchSteps == 4
MaxClientSessions == 3 \* createSession calls in one run of SpecClient
MaxLiveSteps == 2
MaxAdvances == 2       \* clock advances in one run
MaxCompletions == 2    \* cap of the history counter of completion broadcasts

SocketOrder == <<"w1", "w2", "w3">>
Sockets == {SocketOrder[i] : i \in 1..Len(SocketOrder)}
SessionIds == {"S1", "S2"}

-----------------------------------------------------------------------------
(* Program constants *)

GraceMs == 30000                  \* setTimeout(..., 30000)
OneHour == 60 * 60 * 1000         \* const oneHour
SweepInterval == 5 * 60 * 1000    \* setInterval(cleanupExpiredSessions, ...)

Null == "null"        \* null / undefined / a missing field
NullDate == -1        \* null in a Date | null field
EmptyString == ""     \* the '' of txnLink || ''

NoTx == [none |-> TRUE]   \* null / undefined in a transactionData field

Falsy(x) == x = Null \/ x = EmptyString
Has(data, f) == f \in DOMAIN data
Get(data, f) == IF Has(data, f) THEN data[f] ELSE Null

-----------------------------------------------------------------------------
(* Inbound frames.  A frame either parses to an object or does not. *)

Unparsable == [parses |-> FALSE]
Json(data) == [parses |-> TRUE, data |-> data]

OwnerA == [userId |-> "U1", chatId |-> "G1", username |-> "alice"]
OwnerB == [userId |-> "U2", chatId |-> "G2", username |-> "bob"]
OwnerNoName == [userId |-> "U1", chatId |-> "G1", username |-> Null]

TxA == [amount |-> "5", receiver |-> "R1"]
TxB == [amount |-> "7", receiver |-> "R2"]
TxNoReceiver == [amount |-> "5", receiver |-> Null]

CreateMsg(sid, owner, tx) ==
    [type |-> "create_session", sessionId |-> sid, userId |-> owner.userId,
     chatId |-> owner.chatId, username |-> owner.username,
     transactionData |-> tx]

CreateInputs ==
    {CreateMsg("S1", OwnerA, TxA), CreateMsg("S2", OwnerB, NoTx),
     CreateMsg(Null, OwnerA, NoTx),
     CreateMsg("S1", OwnerNoName, NoTx),
     CreateMsg("S1", OwnerA, TxNoReceiver)}

InitInputs ==
    {[type |-> "init_session", sessionId |-> sid] : sid \in SessionIds \cup {Null}}

WalletMsg(sid, walletId, txnLink) ==
    [type |-> "wallet_connected", sessionId |-> sid, walletId |-> walletId,
     txnLink |-> txnLink]

WalletInputs ==
    {WalletMsg(sid, "W1", "L1") : sid \in SessionIds}
    \cup {WalletMsg("S1", "W2", Null),
          WalletMsg(Null, "W1", "L1"), WalletMsg("S1", Null, "L1")}

ProcessMsg(sid, tx) ==
    [type |-> "process_transaction", sessionId |-> sid, transactionData |-> tx]

ProcessInputs ==
    {ProcessMsg(sid, TxB) : sid \in SessionIds}
    \cup {ProcessMsg(Null, TxB), ProcessMsg("S1", NoTx)}

ResultMsg(sid, success, signature, txHash, error) ==
    [type |-> "transaction_result", sessionId |-> sid, success |-> success,
     signature |-> signature, txHash |-> txHash, error |-> error]

ResultInputs ==
    {ResultMsg(sid, TRUE, "sig", "hash", Null) : sid \in SessionIds}
    \cup {ResultMsg("S1", FALSE, Null, Null, "rejected"),
          ResultMsg(Null, TRUE, "sig", "hash", Null),
          [type |-> "transaction_result", sessionId |-> "S1"]}

OtherInputs ==
    {Json([type |-> "ping"]), Json([type |-> "subscribe"]), Unparsable}

-----------------------------------------------------------------------------
(* Maps *)

Put(m, k, v) == [x \in DOMAIN m \cup {k} |-> IF x = k THEN v ELSE m[x]]
Del(m, k) == [x \in DOMAIN m \ {k} |-> m[x]]
EmptyMap == [x \in {} |-> Null]

-----------------------------------------------------------------------------
(* History variables.  inits (the sockets answered session_initialized)     *)
(* follows the session id from its insertion into an empty slot of the      *)
(* store to its removal; dispatched (a process_transaction was accepted),   *)
(* reported (a transaction_result was accepted) and completions (the        *)
(* transaction_completed broadcasts that reached a controller) follow one   *)
(* record, from the sessions.set that made it to its removal; removedBy     *)
(* tells, while the id is absent, what removed it ("timer" or "sweep").     *)

HistInit ==
    [inits |-> {}, dispatched |-> FALSE, reported |-> FALSE, completions |-> 0,
     removedBy |-> Null]

IsOpen(ws) == sockets[ws].readyState = "OPEN"

\* The sockets are interchangeable: the i-th socket to cause an event is
\* named SocketOrder[i].
MayAct(ws) ==
    \A i \in 2..Len(SocketOrder) :
        SocketOrder[i] = ws => SocketOrder[i - 1] \in acted

\* the WalletWebSocketClient after its constructor: both maps empty, the
\* socket to the relay open.  issued counts the ids randomUUID has returned;
\* reply holds the frames sent by the last call; replaced (the ids that
\* createSession deleted) and call (the last call) are history.
ClientInit ==
    [sessions |-> EmptyMap, userToSession |-> EmptyMap, open |-> TRUE,
     issued |-> 0, reply |-> <<>>, replaced |-> {}, call |-> [op |-> "start"]]

InitWith(n) ==
    /\ limit = n
    /\ sessions = EmptyMap
    /\ connections = EmptyMap
    /\ botConnections = {}
    /\ sockets = [ws \in Sockets |->
                    [readyState |-> "OPEN", isBot |-> FALSE, sessionId |-> Null]]
    /\ acted = {}
    /\ timers = {}
    /\ nextSweep = SweepInterval
    /\ now = 0
    /\ last = [kind |-> "start"]
    /\ sent = <<>>
    /\ hist = [sid \in SessionIds |-> HistInit]
    /\ steps = 0
    /\ walletWebSocketClient = ClientInit

\* the state after startServer
Init == InitWith(MaxSteps)

-----------------------------------------------------------------------------
(* Sending *)

\* sendMessage: a frame to ws, dropped when ws is not open
sendMessage(ws, message) ==
    IF IsOpen(ws) THEN <<[to |-> ws, msg |-> message]>> ELSE <<>>

ErrorMsg(text) == [type |-> "error", message |-> text, timestamp |-> now]

\* A broadcast that gives up when it meets a controller that is not open.
sendToBot_AbortsOnClosed(message) ==
    IF \A b \in botConnections : IsOpen(b)
    THEN LET open == SelectSeq(SocketOrder, LAMBDA b : b \in botConnections)
         IN  [i \in 1..Len(open) |-> [to |-> open[i], msg |-> message]]
    ELSE <<>>

\* sendToBot: one frame to every open member of botConnections ...
sendToBot(message) ==
    LET open == SelectSeq(SocketOrder, LAMBDA b : b \in botConnections /\ IsOpen(b))
    IN  [i \in 1..Len(open) |-> [to |-> open[i], msg |-> message]]

\* ... and the members found not open are deleted from the set
BotsAfterSend == {b \in botConnections : IsOpen(b)}

-----------------------------------------------------------------------------
(* Handlers.  Each takes the socket and the parsed frame, and sets the      *)
(* store, the registry, the controller set, the socket flags, the timers,  *)
(* the frames sent and the history.                                        *)

\* A relay that drops the sender from the controller set when it refuses a
\* frame.
Rejected_DropsSender(ws, text) ==
    /\ sent' = sendMessage(ws, ErrorMsg(text))
    /\ botConnections' = botConnections \ {ws}
    /\ UNCHANGED <<sessions, connections, sockets, timers, hist>>

\* A rejection that also closes the sender.
Rejected_ClosesSender(ws, text) ==
    /\ sent' = sendMessage(ws, ErrorMsg(text))
    /\ sockets' = [sockets EXCEPT ![ws].readyState = "CLOSED"]
    /\ UNCHANGED <<sessions, connections, botConnections, timers, hist>>

Rejected(ws, text) ==
    /\ sent' = sendMessage(ws, ErrorMsg(text))
    /\ UNCHANGED <<sessions, connections, botConnections, sockets, timers, hist>>

handleBotConnect(ws, data) ==
    /\ sockets' = [sockets EXCEPT ![ws].isBot = TRUE]
    /\ botConnections' = botConnections \cup {ws}
    /\ sent' = sendMessage(ws, [type |-> "bot_connected",
                                message |-> "Bot connection established",
                                timestamp |-> now])
    /\ UNCHANGED <<sessions, connections, timers, hist>>

\* A session record that drops the payload of the frame.
NewSession_NoPayload(data) ==
    [sessionId |-> data.sessionId, userId |-> data.userId, chatId |-> data.chatId,
     username |-> data.username, status |-> "created", createdAt |-> now,
     connectedAt |-> NullDate, walletConnectedAt |-> NullDate, walletId |-> Null,
     txnLink |-> Null, transactionData |-> NoTx]

NewSession(data) ==
    [sessionId |-> data.sessionId, userId |-> data.userId, chatId |-> data.chatId,
     username |-> data.username, status |-> "created", createdAt |-> now,
     connectedAt |-> NullDate, walletConnectedAt |-> NullDate, walletId |-> Null,
     txnLink |-> Null, transactionData |-> data.transactionData]

\* the conditions under which handleCreateSession answers error
CreateMissingFields(data) ==
    \/ Falsy(data.sessionId) \/ Falsy(data.userId)
    \/ Falsy(data.chatId) \/ Falsy(data.username)

CreateBadTransactionData(data) ==
    /\ data.transactionData # NoTx
    /\ Falsy(data.transactionData.amount) \/ Falsy(data.transactionData.receiver)

handleCreateSession(ws, data) ==
    IF CreateMissingFields(data)
    THEN Rejected(ws, "Missing required session data (sessionId, userId, chatId, username)")
    ELSE IF CreateBadTransactionData(data)
    THEN Rejected(ws, "Transaction data must include amount and receiver")
    ELSE
        /\ sessions' = Put(sessions, data.sessionId, NewSession(data))
        /\ hist' = [hist EXCEPT ![data.sessionId] =
                      [inits |-> IF data.sessionId \in DOMAIN sessions
                                 THEN @.inits ELSE {},
                       dispatched |-> FALSE, reported |-> FALSE,
                       completions |-> 0, removedBy |-> Null]]
        /\ sent' = sendMessage(ws, [type |-> "session_created",
                                    sessionId |-> data.sessionId,
                                    hasTransactionData |-> data.transactionData # NoTx,
                                    timestamp |-> now])
        /\ UNCHANGED <<connections, botConnections, sockets, timers>>

\* the two rejections of handleInitSession after the missing-id check
InitInvalidOrExpired(sessionId) ==
    sessionId \notin DOMAIN sessions \/ sessions[sessionId].status = "expired"

\* A bind that never finds the session in use.
InitAlreadyInUse_Never(sessionId) == FALSE

InitAlreadyInUse(sessionId) ==
    sessions[sessionId].status \in {"connected", "wallet_connected"}

handleInitSession(ws, data) ==
    LET sessionId == data.sessionId IN
    IF Falsy(sessionId)
    THEN Rejected(ws, "Session ID is required")
    ELSE IF InitInvalidOrExpired(sessionId)
    THEN Rejected(ws, "Invalid or expired session")
    ELSE IF InitAlreadyInUse(sessionId)
    THEN Rejected(ws, "Session already in use")
    ELSE
        /\ connections' = Put(connections, sessionId, ws)
        /\ sockets' = [sockets EXCEPT ![ws].sessionId = sessionId]
        /\ sessions' = [sessions EXCEPT ![sessionId].status = "connected",
                                        ![sessionId].connectedAt = now]
        /\ sent' = sendMessage(ws, [type |-> "session_initialized",
                                    userId |-> sessions[sessionId].userId,
                                    username |-> sessions[sessionId].username,
                                    sessionId |-> sessionId,
                                    transactionData |-> sessions[sessionId].transactionData,
                                    timestamp |-> now])
        /\ hist' = [hist EXCEPT ![sessionId].inits =
                      IF IsOpen(ws) THEN @ \cup {ws} ELSE @]
        /\ UNCHANGED <<botConnections, timers>>

\* the rejection of handleWalletConnected after the missing-field check
WalletInvalidSession(sessionId) == sessionId \notin DOMAIN sessions

handleWalletConnected(ws, data) ==
    LET sessionId == data.sessionId
        walletId == data.walletId
        txnLink == IF Falsy(data.txnLink) THEN EmptyString ELSE data.txnLink
    IN
    IF Falsy(sessionId) \/ Falsy(walletId)
    THEN Rejected(ws, "Session ID and wallet ID required")
    ELSE IF WalletInvalidSession(sessionId)
    THEN Rejected(ws, "Invalid session")
    ELSE
        /\ sessions' = [sessions EXCEPT ![sessionId].walletId = walletId,
                                        ![sessionId].txnLink = txnLink,
                                        ![sessionId].status = "wallet_connected",
                                        ![sessionId].walletConnectedAt = now]
        /\ botConnections' = BotsAfterSend
        /\ sent' = sendToBot([type |-> "wallet_connected",
                              userId |-> sessions[sessionId].userId,
                              chatId |-> sessions[sessionId].chatId,
                              username |-> sessions[sessionId].username,
                              walletId |-> walletId, txnLink |-> txnLink,
                              sessionId |-> sessionId, timestamp |-> now])
                   \o sendMessage(ws, [type |-> "wallet_connection_received",
                                       message |-> "Wallet connected successfully!",
                                       timestamp |-> now])
        /\ UNCHANGED <<connections, sockets, timers, hist>>

\* A relay that dispatches to any session it knows, whatever its status.
ProcessInvalidSession_AnyStatus(sessionId) == sessionId \notin DOMAIN sessions

\* the rejections of handleProcessTransaction after the missing-field check
ProcessInvalidSession(sessionId) ==
    sessionId \notin DOMAIN sessions \/ sessions[sessionId].status # "wallet_connected"

\* A relay that never finds the client socket of a session.
ProcessNoFrontend_Always(sessionId) == TRUE

ProcessNoFrontend(sessionId) == sessionId \notin DOMAIN connections

\* the socket the transaction is forwarded to
FrontendWs(sessionId) == connections[sessionId]

handleProcessTransaction(ws, data) ==
    LET sessionId == data.sessionId
        transactionData == data.transactionData
    IN
    IF Falsy(sessionId) \/ transactionData = NoTx
    THEN Rejected(ws, "Session ID and transaction data are required")
    ELSE IF ProcessInvalidSession(sessionId)
    THEN Rejected(ws, "Invalid session, wallet not connected, or session already used")
    ELSE IF ProcessNoFrontend(sessionId)
    THEN Rejected(ws, "Frontend not connected")
    ELSE
        /\ sent' = sendMessage(FrontendWs(sessionId),
                               [type |-> "process_transaction",
                                transactionData |-> transactionData,
                                timestamp |-> now])
                   \o sendMessage(ws, [type |-> "transaction_sent",
                                       message |-> "Transaction sent to frontend for processing",
                                       timestamp |-> now])
        /\ hist' = [hist EXCEPT ![sessionId].dispatched = TRUE]
        /\ UNCHANGED <<sessions, connections, botConnections, sockets, timers>>

\* A relay that refuses the result of a session older than one hour, which
\* the next sweep will remove.
ResultInvalidOrExpired_Aged(sessionId) ==
    \/ sessionId \notin DOMAIN sessions
    \/ sessions[sessionId].status = "expired"
    \/ now - sessions[sessionId].createdAt > OneHour

\* A relay that takes a result for any session it knows, expired or not.
ResultInvalidOrExpired_AnyStatus(sessionId) == sessionId \notin DOMAIN sessions

\* the rejection of handleTransactionResult after the missing-field check
ResultInvalidOrExpired(sessionId) ==
    sessionId \notin DOMAIN sessions \/ sessions[sessionId].status = "expired"

\* the conditional spreads of resultData
ResultExtras(data) ==
    [signature |-> IF data.success /\ ~Falsy(data.signature) THEN data.signature ELSE Null,
     txHash |-> IF data.success /\ ~Falsy(data.txHash) THEN data.txHash ELSE Null,
     error |-> IF ~Falsy(data.error) THEN data.error ELSE Null]

handleTransactionResult(ws, data) ==
    LET sessionId == Get(data, "sessionId") IN
    IF ~Has(data, "success") \/ Falsy(sessionId)
    THEN Rejected(ws, "Success status and session ID are required")
    ELSE IF ResultInvalidOrExpired(sessionId)
    THEN Rejected(ws, "Invalid or expired session")
    ELSE
        /\ sessions' = [sessions EXCEPT ![sessionId].status = "expired"]
        /\ botConnections' = BotsAfterSend
        /\ sent' = sendToBot([type |-> "transaction_completed",
                              success |-> data.success,
                              userId |-> sessions[sessionId].userId,
                              chatId |-> sessions[sessionId].chatId,
                              username |-> sessions[sessionId].username,
                              walletId |-> sessions[sessionId].walletId,
                              sessionId |-> sessionId, timestamp |-> now,
                              extras |-> ResultExtras(data)])
                   \o sendMessage(ws, [type |-> "transaction_result_received",
                                       message |-> "Transaction result sent to bot. Session is now expired.",
                                       timestamp |-> now])
        /\ timers' = timers \cup {[sessionId |-> sessionId, due |-> now + GraceMs]}
        /\ hist' = [hist EXCEPT ![sessionId].reported = TRUE,
                                ![sessionId].completions =
                      IF BotsAfterSend # {} /\ @ < MaxCompletions THEN @ + 1 ELSE @]
        /\ UNCHANGED <<connections, sockets>>

\* A ping that is not answered.
handlePing_Silent(ws) ==
    /\ sent' = <<>>
    /\ UNCHANGED <<sessions, connections, botConnections, sockets, timers, hist>>

handlePing(ws) ==
    /\ sent' = sendMessage(ws, [type |-> "pong", timestamp |-> now])
    /\ UNCHANGED <<sessions, connections, botConnections, sockets, timers, hist>>

\* handleMessage: JSON.parse, the switch on data.type, and the catch
handleMessage(ws, message) ==
    IF ~message.parses
    THEN Rejected(ws, "Invalid message format")
    ELSE LET data == message.data IN
         CASE data.type = "bot_connect" -> handleBotConnect(ws, data)
           [] data.type = "create_session" -> handleCreateSession(ws, data)
           [] data.type = "init_session" -> handleInitSession(ws, data)
           [] data.type = "wallet_connected" -> handleWalletConnected(ws, data)
           [] data.type = "process_transaction" -> handleProcessTransaction(ws, data)
           [] data.type = "transaction_result" -> handleTransactionResult(ws, data)
           [] data.type = "ping" -> handlePing(ws)
           [] OTHER -> Rejected(ws, "Unknown message type")

\* ws.on('message'): a frame arrives on an open socket
OnMessage(ws, message) ==
    /\ IsOpen(ws)
    /\ MayAct(ws)
    /\ handleMessage(ws, message)
    /\ last' = [kind |-> "message", from |-> ws, message |-> message,
                changed |-> Relay' # Relay]
    /\ steps' = IF Relay' = Relay THEN steps ELSE steps + 1
    /\ steps' <= limit
    /\ acted' = IF Relay' = Relay THEN acted ELSE acted \cup {ws}
    /\ UNCHANGED <<now, nextSweep, limit,
                       walletWebSocketClient>>

BotConnect ==
    Observing /\ \E ws \in Sockets : OnMessage(ws, Json([type |-> "bot_connect"]))
CreateSession ==
    Observing /\ \E ws \in Sockets, d \in CreateInputs : OnMessage(ws, Json(d))
InitSession ==
    Observing /\ \E ws \in Sockets, d \in InitInputs : OnMessage(ws, Json(d))
WalletConnected ==
    Observing /\ \E ws \in Sockets, d \in WalletInputs : OnMessage(ws, Json(d))
ProcessTransaction ==
    Observing /\ \E ws \in Sockets, d \in ProcessInputs : OnMessage(ws, Json(d))
TransactionResult ==
    Observing /\ \E ws \in Sockets, d \in ResultInputs : OnMessage(ws, Json(d))
OtherFrame ==
    Observing /\ \E ws \in Sockets, m \in OtherInputs : OnMessage(ws, m)

-----------------------------------------------------------------------------
(* Socket close, timers, sweep, clock *)

\* the socket leaves the OPEN state; its 'close' event is emitted later
SocketCloses ==
    Observing /\ \E ws \in Sockets :
        /\ IsOpen(ws)
        /\ MayAct(ws)
        /\ steps < limit
        /\ steps' = steps + 1
        /\ acted' = acted \cup {ws}
        /\ sockets' = [sockets EXCEPT ![ws].readyState = "CLOSING"]
        /\ last' = [kind |-> "closing", from |-> ws]
        /\ sent' = <<>>
        /\ UNCHANGED <<sessions, connections, botConnections, timers, nextSweep,
                       now, hist, limit,
                       walletWebSocketClient>>

\* A cleanup that leaves the socket in the controller set.
cleanupConnection_KeepsBot(ws) ==
    /\ connections' = IF ~Falsy(sockets[ws].sessionId)
                      THEN Del(connections, sockets[ws].sessionId)
                      ELSE connections
    /\ botConnections' = botConnections

\* cleanupConnection, on the 'close' (or 'error') event
cleanupConnection(ws) ==
    /\ connections' = IF ~Falsy(sockets[ws].sessionId)
                      THEN Del(connections, sockets[ws].sessionId)
                      ELSE connections
    /\ botConnections' = IF sockets[ws].isBot
                         THEN botConnections \ {ws}
                         ELSE botConnections

OnClose ==
    Observing /\ \E ws \in Sockets :
        /\ sockets[ws].readyState = "CLOSING"
        /\ cleanupConnection(ws)
        /\ sockets' = [sockets EXCEPT ![ws].readyState = "CLOSED"]
        /\ last' = [kind |-> "close", from |-> ws]
        /\ sent' = <<>>
        /\ UNCHANGED <<sessions, timers, nextSweep, now, hist, acted, limit, steps,
                   walletWebSocketClient>>

\* A removal that deletes from the store only and leaves the registry entry.
Removed_KeepsRegistry(ids, by) ==
    /\ sessions' = [x \in DOMAIN sessions \ ids |-> sessions[x]]
    /\ connections' = connections
    /\ hist' = [sid \in SessionIds |->
                  IF sid \in ids /\ sid \in DOMAIN sessions
                  THEN [HistInit EXCEPT !.removedBy = by]
                  ELSE hist[sid]]

\* the removal of a session id from the store and the registry
Removed(ids, by) ==
    /\ sessions' = [x \in DOMAIN sessions \ ids |-> sessions[x]]
    /\ connections' = [x \in DOMAIN connections \ ids |-> connections[x]]
    /\ hist' = [sid \in SessionIds |->
                  IF sid \in ids /\ sid \in DOMAIN sessions
                  THEN [HistInit EXCEPT !.removedBy = by]
                  ELSE hist[sid]]

\* the callback of the setTimeout of handleTransactionResult
TimerFires ==
    Observing /\ \E t \in timers :
        /\ now >= t.due
        /\ Removed({t.sessionId}, "timer")
        /\ timers' = timers \ {t}
        /\ last' = [kind |-> "timer", sessionId |-> t.sessionId]
        /\ sent' = <<>>
        /\ UNCHANGED <<botConnections, sockets, nextSweep, now, acted, limit, steps,
                   walletWebSocketClient>>

\* A sweep that collects the expired sessions only, whatever their age.
ExpiredSessions_NoCeiling ==
    {sid \in DOMAIN sessions : sessions[sid].status = "expired"}

\* A sweep that also collects the sessions that are exactly one hour old.
ExpiredSessions_AtCeiling ==
    {sid \in DOMAIN sessions :
        \/ now - sessions[sid].createdAt >= OneHour
        \/ sessions[sid].status = "expired"}

\* the ids cleanupExpiredSessions collects
ExpiredSessions ==
    {sid \in DOMAIN sessions :
        \/ now - sessions[sid].createdAt > OneHour
        \/ sessions[sid].status = "expired"}

cleanupExpiredSessions ==
    /\ Observing
    /\ now >= nextSweep
    /\ Removed(ExpiredSessions, "sweep")
    /\ nextSweep' = now + SweepInterval
    /\ last' = [kind |-> "sweep", removed |-> ExpiredSessions,
                unexpired |-> {sid \in ExpiredSessions :
                                 sessions[sid].status # "expired"},
                bound |-> ExpiredSessions \cap DOMAIN connections]
    /\ sent' = <<>>
    /\ UNCHANGED <<botConnections, sockets, timers, now, acted, limit, steps,
                   walletWebSocketClient>>

\* time passes; a callback that is due runs before time passes again
TimeSteps == {GraceMs, OneHour}

Elapsed(t) == (t \div OneHour) + ((t % OneHour) \div GraceMs)

Advance ==
    Observing /\ \E d \in TimeSteps :
        /\ Elapsed(now) < MaxAdvances
        /\ steps < limit
        /\ \A t \in timers : t.due > now
        /\ nextSweep > now
        /\ now' = now + d
        /\ steps' = steps + 1
        /\ last' = [kind |-> "advance", by |-> d]
        /\ sent' = <<>>
        /\ UNCHANGED <<sessions, connections, botConnections, sockets, timers,
                       nextSweep, hist, acted, limit,
                       walletWebSocketClient>>

\* the observation of a frame without effect is forgotten
Forget ==
    /\ NoEffectObserved
    /\ last' = [kind |-> "idle"]
    /\ sent' = <<>>
    /\ UNCHANGED <<sessions, connections, botConnections, sockets, timers,
                   nextSweep, now, hist, acted, limit, steps,
                   walletWebSocketClient>>

Next ==
    \/ BotConnect
    \/ CreateSession
    \/ InitSession
    \/ WalletConnected
    \/ ProcessTransaction
    \/ TransactionResult
    \/ OtherFrame
    \/ SocketCloses
    \/ OnClose
    \/ TimerFires
    \/ cleanupExpiredSessions
    \/ Advance
    \/ Forget

Spec == Init /\ [][Next]_vars

\* The relay under frames alone: no socket closes and no time passes (every
\* run lasts less than the 30 seconds of the first timer), in longer runs.
InitFrames == InitWith(MaxFrames)

NextFrames ==
    \/ BotConnect
    \/ CreateSession
    \/ InitSession
    \/ WalletConnected
    \/ ProcessTransaction
    \/ TransactionResult
    \/ OtherFrame
    \/ Forget

SpecFrames == InitFrames /\ [][NextFrames]_vars

\* The life of a session against the clock: registration, creation, bind,
\* result, the delayed deletion and the sweep, with every socket staying
\* open (a session is created, connected or expired).
InitClock == InitWith(MaxClockSteps)

NextClock ==
    \/ BotConnect
    \/ CreateSession
    \/ InitSession
    \/ TransactionResult
    \/ TimerFires
    \/ cleanupExpiredSessions
    \/ Advance
    \/ Forget

SpecClock == InitClock /\ [][NextClock]_vars

\* The dispatch to a client socket while sockets close.
InitDispatch == InitWith(MaxDispatchSteps)

NextDispatch ==
    \/ CreateSession
    \/ InitSession
    \/ WalletConnected
    \/ ProcessTransaction
    \/ SocketCloses
    \/ OnClose
    \/ Forget

SpecDispatch == InitDispatch /\ [][NextDispatch]_vars

\* The relay with a clock that keeps running: time passes to the next due
\* callback (a setTimeout of handleTransactionResult or the setInterval tick)
\* for as long as something is stored, and a due callback is eventually run
\* however many frames arrive (timers phase of the event loop).
NextDue ==
    LET dues == {t.due : t \in timers} \cup {nextSweep}
    IN  CHOOSE x \in dues : \A y \in dues : x <= y

ClockRuns ==
    /\ Observing
    /\ sessions # EmptyMap \/ timers # {}
    /\ NextDue > now
    /\ now' = NextDue
    /\ last' = [kind |-> "advance", by |-> NextDue - now]
    /\ sent' = <<>>
    /\ UNCHANGED <<sessions, connections, botConnections, sockets, timers,
                   nextSweep, hist, acted, limit, steps,
                   walletWebSocketClient>>

InitLive == InitWith(MaxLiveSteps)

NextLive ==
    \/ CreateSession
    \/ InitSession
    \/ WalletConnected
    \/ TransactionResult
    \/ TimerFires
    \/ cleanupExpiredSessions
    \/ ClockRuns
    \/ Forget

SpecLive ==
    /\ InitLive
    /\ [][NextLive]_vars
    /\ SF_vars(ClockRuns)
    /\ SF_vars(TimerFires)
    /\ SF_vars(cleanupExpiredSessions)
    /\ WF_vars(Forget)

\* The broadcasts to the controllers while sockets close: registration,
\* creation, link and result (the two broadcasting handlers), socket close.
InitBroadcast == InitWith(MaxBroadcastSteps)

NextBroadcast ==
    \/ BotConnect
    \/ CreateSession
    \/ WalletConnected
    \/ TransactionResult
    \/ SocketCloses
    \/ OnClose
    \/ Forget

SpecBroadcast == InitBroadcast /\ [][NextBroadcast]_vars

\* The registry while sockets close: registration, creation, bind, close.
InitBinding == InitWith(MaxBindingSteps)

NextBinding ==
    \/ BotConnect
    \/ CreateSession
    \/ InitSession
    \/ SocketCloses
    \/ OnClose
    \/ Forget

SpecBinding == InitBinding /\ [][NextBinding]_vars

-----------------------------------------------------------------------------
(* The controller-side WalletWebSocketClient.  It keeps its own sessions    *)
(* and userToSession maps and leaves the relay's state alone.               *)

\* the relay's variables, which no method of the client touches
RelayVars == <<sessions, connections, botConnections, sockets, timers, nextSweep,
               now, last, sent, hist, acted, limit, steps>>

\* the ids randomUUID returns, taken as never returned before
Uuids == <<"u1", "u2", "u3", "u4", "u5", "u6">>

ClientUsers == {OwnerA, OwnerB}

\* the frames the relay sends to the client
ClientInputs ==
    {Json([type |-> "init_session", sessionId |-> Uuids[i]]) : i \in 1..Len(Uuids)}
    \cup {Json([type |-> "wallet_connected", sessionId |-> Uuids[i],
                walletId |-> "W1", txnLink |-> "L1"]) : i \in 1..Len(Uuids)}
    \cup {Json([type |-> "ping"]), Json([type |-> "subscribe"]), Unparsable}

\* A createSession that keeps the previous session of the user.
createSession_KeepsPrevious(userId, chatId, username) ==
    LET c == walletWebSocketClient
        sessionId == Uuids[c.issued + 1]
        session == [userId |-> userId, chatId |-> chatId, username |-> username,
                    sessionId |-> sessionId, connected |-> FALSE]
    IN  [c EXCEPT !.sessions = Put(c.sessions, sessionId, session),
                  !.userToSession = Put(c.userToSession, userId, sessionId),
                  !.issued = @ + 1,
                  !.reply = <<>>,
                  !.call = [op |-> "createSession", userId |-> userId,
                            sessionId |-> sessionId]]

\* createSession: the client after the call (the timestamp field of the
\* session, which nothing reads, is left out)
createSession(userId, chatId, username) ==
    LET c == walletWebSocketClient
        sessionId == Uuids[c.issued + 1]
        existingSessionId == Get(c.userToSession, userId)
        kept == IF ~Falsy(existingSessionId)
                THEN Del(c.sessions, existingSessionId) ELSE c.sessions
        session == [userId |-> userId, chatId |-> chatId, username |-> username,
                    sessionId |-> sessionId, connected |-> FALSE]
    IN  [c EXCEPT !.sessions = Put(kept, sessionId, session),
                  !.userToSession = Put(c.userToSession, userId, sessionId),
                  !.issued = @ + 1,
                  !.reply = <<>>,
                  !.replaced = IF ~Falsy(existingSessionId)
                               THEN @ \cup {existingSessionId} ELSE @,
                  !.call = [op |-> "createSession", userId |-> userId,
                            sessionId |-> sessionId]]

\* cleanupAllSessions: both maps cleared
cleanupAllSessions(c) ==
    [c EXCEPT !.sessions = EmptyMap, !.userToSession = EmptyMap]

\* initializeSession: the client after an init_session frame
initializeSession(c, message) ==
    LET sessionId == Get(message, "sessionId") IN
    IF sessionId \notin DOMAIN c.sessions
    THEN [c EXCEPT !.reply = <<[type |-> "error", message |-> "Invalid session ID"]>>]
    ELSE [c EXCEPT !.sessions[sessionId].connected = TRUE,
                   !.reply = <<[type |-> "session_initialized",
                                userId |-> c.sessions[sessionId].userId,
                                username |-> c.sessions[sessionId].username]>>]

\* handleWalletConnection: the client after a wallet_connected frame (the
\* 'wallet_connected' event it emits changes nothing of the client)
handleWalletConnection(c, message) ==
    LET sessionId == Get(message, "sessionId") IN
    IF sessionId \notin DOMAIN c.sessions
    THEN [c EXCEPT !.reply = <<[type |-> "error", message |-> "Invalid session"]>>]
    ELSE [c EXCEPT !.reply = <<[type |-> "wallet_connection_received",
                                message |-> "Wallet connection data sent"]>>]

\* the 'message' callback: JSON.parse, handleMessage's switch, and the catch
ClientHandleMessage(c, frame) ==
    IF ~frame.parses
    THEN [c EXCEPT !.reply = <<>>]
    ELSE LET message == frame.data IN
         CASE message.type = "init_session" -> initializeSession(c, message)
           [] message.type = "wallet_connected" -> handleWalletConnection(c, message)
           [] message.type = "ping" -> [c EXCEPT !.reply = <<[type |-> "pong"]>>]
           [] OTHER -> [c EXCEPT !.reply = <<>>]

\* the controller calls createSession
ClientCreateSession ==
    \E owner \in ClientUsers :
        /\ walletWebSocketClient.issued < MaxClientSessions
        /\ walletWebSocketClient' =
              createSession(owner.userId, owner.chatId, owner.username)
        /\ UNCHANGED RelayVars

\* a frame arrives on the client's socket
ClientOnMessage ==
    \E frame \in ClientInputs :
        /\ walletWebSocketClient.open
        /\ walletWebSocketClient' =
              [ClientHandleMessage(walletWebSocketClient, frame)
                  EXCEPT !.call = [op |-> "message", frame |-> frame]]
        /\ UNCHANGED RelayVars

\* the setInterval callback, every 30 minutes
ClientSweep ==
    /\ walletWebSocketClient' =
          [cleanupAllSessions(walletWebSocketClient)
              EXCEPT !.reply = <<>>, !.call = [op |-> "cleanupAllSessions"]]
    /\ UNCHANGED RelayVars

\* the 'close' callback of the client's socket
ClientOnClose ==
    /\ walletWebSocketClient.open
    /\ walletWebSocketClient' =
          [cleanupAllSessions(walletWebSocketClient)
              EXCEPT !.open = FALSE, !.reply = <<>>, !.call = [op |-> "close"]]
    /\ UNCHANGED RelayVars

InitClient == InitWith(0)

NextClient ==
    \/ ClientCreateSession
    \/ ClientOnMessage
    \/ ClientSweep
    \/ ClientOnClose

SpecClient == InitClient /\ [][NextClient]_vars

-----------------------------------------------------------------------------
(* What a step shows: the frame it handled and the frames it sent *)

\* the type of the frame handled by the last step, Null if there was none
FrameType ==
    IF last.kind = "message" /\ last.message.parses
    THEN last.message.data.type ELSE Null

\* the session id that frame names
FrameSid == Get(last.message.data, "sessionId")

\* the positions in sent of the frames of one type
SentOfType(t) == {i \in 1..Len(sent) : sent[i].msg.type = t}

\* the sender of the frame was answered with an error frame
AnsweredError ==
    \E i \in 1..Len(sent) : sent[i].to = last.from /\ sent[i].msg.type = "error"

\* the order of the statuses
Rank(status) ==
    CASE status = "created" -> 0
      [] status = "connected" -> 1
      [] status = "wallet_connected" -> 2
      [] status = "expired" -> 3

-----------------------------------------------------------------------------
(* Properties *)

\* C1: while a session's entry exists, no step moves its status backward in
\* the order created < connected < wallet_connected < expired; in particular
\* an expired session never returns to a non-terminal status.
C1_StatusNeverMovesBackward ==
    [][\A sid \in DOMAIN sessions \cap DOMAIN sessions' :
          Rank(sessions'[sid].status) >= Rank(sessions[sid].status)]_vars

\* C2: over the life of a session id in the store, at most one socket is
\* answered session_initialized for it (every other init_session is answered
\* error), and the registry entry of the id, if any, points to that socket.
C2_ExactlyOneBindWins ==
    \A sid \in SessionIds :
        /\ Cardinality(hist[sid].inits) <= 1
        /\ sid \in DOMAIN connections => connections[sid] \in hist[sid].inits

\* C3: a create_session naming an id already in the store is answered with
\* error and leaves the store as it was.
C3_DuplicateCreateRejected ==
    [][(FrameType' = "create_session" /\ FrameSid' \in DOMAIN sessions)
          => (AnsweredError' /\ sessions' = sessions)]_vars

\* C4: a wallet_connected naming an unknown id, or a session whose status is
\* not connected, is answered with error, leaves the store as it was and
\* broadcasts nothing to the controllers.
C4_LinkOnlyWhenBound ==
    [][(/\ FrameType' = "wallet_connected"
        /\ \/ FrameSid' \notin DOMAIN sessions
           \/ sessions[FrameSid'].status # "connected")
          => (/\ AnsweredError'
              /\ sessions' = sessions
              /\ SentOfType("wallet_connected")' = {})]_vars

\* C5: a transaction_result for a session for which no process_transaction
\* was accepted before is answered with error: the status does not become
\* expired and no transaction_completed is broadcast.
C5_ResultOnlyAfterDispatch ==
    [][(/\ FrameType' = "transaction_result"
        /\ \/ FrameSid' \notin SessionIds
           \/ ~hist[FrameSid'].dispatched)
          => (/\ AnsweredError'
              /\ sessions' = sessions
              /\ SentOfType("transaction_completed")' = {})]_vars

\* C6: a transaction_result naming a session whose status is already expired
\* is answered with error; no transaction_completed is broadcast, the store
\* is unchanged and no further delayed deletion is scheduled.
C6_ReplayedResultRejected ==
    [][(/\ FrameType' = "transaction_result"
        /\ FrameSid' \in DOMAIN sessions
        /\ sessions[FrameSid'].status = "expired")
          => (/\ AnsweredError'
              /\ SentOfType("transaction_completed")' = {}
              /\ sessions' = sessions
              /\ timers' = timers)]_vars

\* C6, its case: a result was accepted and broadcast, its deletion is
\* pending, and the same result has just been sent again and refused.
C6_ReplayRefused ==
    /\ FrameType = "transaction_result"
    /\ FrameSid \in DOMAIN sessions
    /\ sessions[FrameSid].status = "expired"
    /\ hist[FrameSid].completions = 1
    /\ \E t \in timers : t.sessionId = FrameSid
    /\ AnsweredError

\* C7: from the creation of a session record to its removal, the controllers
\* receive at most one transaction_completed broadcast for it.
C7_AtMostOneCompletion ==
    \A sid \in SessionIds : hist[sid].completions <= 1

\* C8: a wallet_connected or transaction_result naming a session whose
\* registered client socket is another socket than the sender changes no
\* session and broadcasts nothing to the controllers.
C8_OnlyBoundSocketMutates ==
    [][(/\ FrameType' \in {"wallet_connected", "transaction_result"}
        /\ FrameSid' \in DOMAIN sessions
        /\ FrameSid' \in DOMAIN connections
        /\ connections[FrameSid'] # last'.from)
          => (/\ sessions' = sessions
              /\ SentOfType("wallet_connected")' = {}
              /\ SentOfType("transaction_completed")' = {})]_vars

\* the conditions of a dispatch: the session exists, its status is
\* wallet_connected and a client socket is registered for it
Dispatchable(sid) ==
    /\ sid \in DOMAIN sessions
    /\ sessions[sid].status = "wallet_connected"
    /\ sid \in DOMAIN connections

\* C9: a process_transaction frame is sent to a client only by the handling
\* of a process_transaction naming a session that exists, has status
\* wallet_connected and has a registered client socket; it then goes, once
\* and with the payload given, to that registered socket and to no other
\* (and it does go there when that socket is open).  In every other case the
\* sender is answered with error and nothing is forwarded.
C9_DispatchOnlyToBoundClient ==
    [][LET forwarded == SentOfType("process_transaction")' IN
       IF FrameType' = "process_transaction"
       THEN LET sid == FrameSid'
                payload == last'.message.data.transactionData
            IN  /\ forwarded # {} =>
                     /\ Dispatchable(sid)
                     /\ Cardinality(forwarded) = 1
                     /\ \A i \in forwarded :
                           /\ sent'[i].to = connections[sid]
                           /\ sent'[i].msg.transactionData = payload
                /\ (~Dispatchable(sid) \/ payload = NoTx) =>
                     (AnsweredError' /\ forwarded = {})
                /\ (Dispatchable(sid) /\ payload # NoTx /\ IsOpen(connections[sid])) =>
                     forwarded # {}
       ELSE forwarded = {}]_vars

\* C9, its case: a dispatch from one socket has just been forwarded to the
\* other socket, the registered client of a wallet_connected session.
C9_DispatchForwarded ==
    /\ FrameType = "process_transaction"
    /\ Dispatchable(FrameSid)
    /\ connections[FrameSid] # last.from
    /\ \E i \in SentOfType("process_transaction") :
          /\ sent[i].to = connections[FrameSid]
          /\ sent[i].msg.transactionData = TxB

\* C10: a wallet_connected for a session whose status is already
\* wallet_connected is answered with error, overwrites nothing and is not
\* broadcast again; a process_transaction for a session that has an accepted
\* dispatch and no result yet is answered with error and forwards nothing.
C10_EachStepOnce ==
    [][/\ (/\ FrameType' = "wallet_connected"
           /\ FrameSid' \in DOMAIN sessions
           /\ sessions[FrameSid'].status = "wallet_connected")
             => (/\ AnsweredError'
                 /\ sessions' = sessions
                 /\ SentOfType("wallet_connected")' = {})
       /\ (/\ FrameType' = "process_transaction"
           /\ FrameSid' \in DOMAIN sessions
           /\ hist[FrameSid'].dispatched
           /\ ~hist[FrameSid'].reported)
             => (/\ AnsweredError'
                 /\ SentOfType("process_transaction")' = {})]_vars

\* C11: an init_session naming an id unknown to the store, or an expired
\* session, or a session that has an entry in the registry, is answered with
\* error and leaves the store, the registry and the sockets' bindings as
\* they were.
C11_BindRejected ==
    [][(/\ FrameType' = "init_session"
        /\ \/ FrameSid' \notin DOMAIN sessions
           \/ sessions[FrameSid'].status = "expired"
           \/ FrameSid' \in DOMAIN connections)
          => (/\ AnsweredError'
              /\ sessions' = sessions
              /\ connections' = connections
              /\ sockets' = sockets)]_vars

\* C12: a session that a transaction_result has made expired stays in the
\* store during the 30 seconds before its delayed deletion is due, whatever
\* else happens (a sweep included): no step taken before that time removes
\* it.
C12_KeptForGraceWindow ==
    [][\A t \in timers :
          (/\ t.sessionId \in DOMAIN sessions
           /\ sessions[t.sessionId].status = "expired"
           /\ now' < t.due)
             => t.sessionId \in DOMAIN sessions']_vars

\* C13: after a run of cleanupExpiredSessions no session older than one hour
\* is left in the store, and the registry has no entry for an id that is not
\* in the store (so none for a session older than one hour), whatever the
\* status of the session was.
C13_SweepEnforcesCeiling ==
    last.kind = "sweep" =>
        /\ \A sid \in DOMAIN sessions : now - sessions[sid].createdAt <= OneHour
        /\ DOMAIN connections \subseteq DOMAIN sessions

\* C13, its case: the sweep has just removed a session older than one hour
\* that was not expired and had a registered client socket.
C13_AgedBoundSessionSwept ==
    /\ last.kind = "sweep"
    /\ \E sid \in last.unexpired \cap last.bound :
          sid \notin DOMAIN sessions /\ sid \notin DOMAIN connections

\* C14: after the close of a socket (cleanupConnection) the socket is not in
\* the controller set and no registry entry maps a session id to it, also
\* when it had bound more than one id; the close changes no session.
C14_CloseUnbindsSocket ==
    [][last'.kind = "close" =>
          /\ last'.from \notin botConnections'
          /\ \A sid \in DOMAIN connections' : connections'[sid] # last'.from
          /\ sessions' = sessions]_vars

\* C15: a create_session or process_transaction from a socket that has not
\* registered as controller (bot_connect) creates or changes no session and
\* forwards no payload to any client.
C15_ControllerRoleRequired ==
    [][(/\ FrameType' \in {"create_session", "process_transaction"}
        /\ ~sockets[last'.from].isBot)
          => (/\ sessions' = sessions
              /\ SentOfType("process_transaction")' = {})]_vars

\* C16: a step that answers the sender of a frame with an error frame leaves
\* the store, the registry and the controller set as they were and sends no
\* frame to any other socket.
C16_ErrorChangesNothing ==
    [][(last'.kind = "message" /\ AnsweredError')
          => (/\ sessions' = sessions
              /\ connections' = connections
              /\ botConnections' = botConnections
              /\ \A i \in 1..Len(sent') : sent'[i].to = last'.from)]_vars

\* C16, its case: with a controller registered and a session bound, a
\* further init_session for that session has just been answered with error.
C16_ErrorWithStateAtStake ==
    /\ FrameType = "init_session"
    /\ AnsweredError
    /\ FrameSid \in DOMAIN connections
    /\ botConnections # {}

\* C17: the transaction_completed of a session is delivered to one
\* controller only: a session has one creator, so the frames of one result
\* never reach two different controllers.
C17_ResultToOneController ==
    Cardinality({sent[i].to : i \in SentOfType("transaction_completed")}) <= 1

\* the frame handled by the last step was accepted by one of the two
\* handlers that broadcast
BroadcastSent ==
    \E i \in 1..Len(sent) :
        sent[i].msg.type \in {"wallet_connection_received",
                              "transaction_result_received"}

\* the type of the frame broadcast for an inbound frame type
BroadcastType(t) ==
    IF t = "wallet_connected" THEN "wallet_connected" ELSE "transaction_completed"

\* C18: when an accepted wallet_connected or transaction_result is
\* broadcast, every member of the controller set that is open receives
\* exactly one copy, a member that is not open receives none and leaves the
\* set, the open members stay in it, and no other socket receives a copy.
C18_BroadcastReachesOpenControllers ==
    [][BroadcastSent' =>
          LET copies(b) == {i \in SentOfType(BroadcastType(FrameType))' :
                              sent'[i].to = b}
          IN  \A b \in Sockets :
                /\ (b \in botConnections /\ IsOpen(b))
                      => (Cardinality(copies(b)) = 1 /\ b \in botConnections')
                /\ (b \in botConnections /\ ~IsOpen(b))
                      => (copies(b) = {} /\ b \notin botConnections')
                /\ b \notin botConnections
                      => (copies(b) = {} /\ b \notin botConnections')]_vars

\* C18, its case: a broadcast has just reached an open controller while
\* another controller, closing and not yet cleaned up, was dropped from the
\* set.
C18_ClosedControllerSkipped ==
    /\ BroadcastSent
    /\ \E b \in botConnections :
          \E i \in SentOfType(BroadcastType(FrameType)) : sent[i].to = b
    /\ \E b \in Sockets :
          /\ sockets[b].isBot
          /\ sockets[b].readyState = "CLOSING"
          /\ b \notin botConnections

\* the frames of type t sent to socket ws by the last step
FramesTo(ws, t) == {sent[i].msg : i \in {j \in SentOfType(t) : sent[j].to = ws}}

\* the frame handled by the last step
Frame == last.message.data

\* C19: each step of the handshake is accepted when its turn has come.
\* (a) A create_session with its fields, from a registered controller, for
\* an id not in the store, is answered session_created and stores the session
\* as created.  (b) An init_session for a created session is answered
\* session_initialized with the userId, username and sessionId of the record,
\* makes it connected and registers the sender.  (c) A wallet_connected with
\* a walletId from the registered client of a connected session makes it
\* wallet_connected and every open controller receives a wallet_connected
\* frame with that walletId.  (d) A process_transaction with a payload from
\* a controller, for a wallet_connected session whose registered client is
\* open, sends that client a process_transaction frame with the payload.
\* (e) A transaction_result with a success value from the registered client
\* of a wallet_connected session makes it expired and every open controller
\* receives transaction_completed with that value.  None of these steps is
\* answered with error.
C19_HandshakeAccepted ==
    [][\A from \in Sockets, sid \in SessionIds :
       (FrameType' # Null /\ last'.from = from /\ FrameSid' = sid) =>
       LET t == FrameType'
           d == Frame'
       IN
       /\ (/\ t = "create_session"
           /\ sockets[from].isBot
           /\ ~CreateMissingFields(d) /\ ~CreateBadTransactionData(d)
           /\ sid \notin DOMAIN sessions)
             => (/\ ~AnsweredError'
                 /\ \E m \in FramesTo(from, "session_created")' : m.sessionId = sid
                 /\ sid \in DOMAIN sessions'
                 /\ sessions'[sid].status = "created"
                 /\ sessions'[sid].userId = d.userId
                 /\ sessions'[sid].username = d.username)
       /\ (/\ t = "init_session"
           /\ sid \in DOMAIN sessions
           /\ sessions[sid].status = "created")
             => (/\ ~AnsweredError'
                 /\ \E m \in FramesTo(from, "session_initialized")' :
                       /\ m.userId = sessions[sid].userId
                       /\ m.username = sessions[sid].username
                       /\ m.sessionId = sid
                 /\ sessions'[sid].status = "connected"
                 /\ connections'[sid] = from)
       /\ (/\ t = "wallet_connected"
           /\ ~Falsy(d.walletId)
           /\ sid \in DOMAIN sessions
           /\ sessions[sid].status = "connected"
           /\ sid \in DOMAIN connections
           /\ connections[sid] = from)
             => (/\ ~AnsweredError'
                 /\ sessions'[sid].status = "wallet_connected"
                 /\ sessions'[sid].walletId = d.walletId
                 /\ \A b \in botConnections :
                       IsOpen(b) =>
                          \E m \in FramesTo(b, "wallet_connected")' :
                             m.walletId = d.walletId /\ m.sessionId = sid)
       /\ (/\ t = "process_transaction"
           /\ sockets[from].isBot
           /\ d.transactionData # NoTx
           /\ Dispatchable(sid))
             => \A client \in Sockets :
                   (client = connections[sid] /\ IsOpen(client)) =>
                      /\ ~AnsweredError'
                      /\ \E m \in FramesTo(client, "process_transaction")' :
                            m.transactionData = d.transactionData
       /\ (/\ t = "transaction_result"
           /\ Has(d, "success")
           /\ sid \in DOMAIN sessions
           /\ sessions[sid].status = "wallet_connected"
           /\ sid \in DOMAIN connections
           /\ connections[sid] = from)
             => (/\ ~AnsweredError'
                 /\ sessions'[sid].status = "expired"
                 /\ \A b \in botConnections :
                       IsOpen(b) =>
                          \E m \in FramesTo(b, "transaction_completed")' :
                             m.success = d.success /\ m.sessionId = sid)]_vars

\* C19, its case: the whole handshake has been run on one session: created
\* by the controller, bound by a client that is not a controller, linked with
\* wallet W1, dispatched, and its successful result, sent by the client, has
\* just been broadcast to the controller; the session is expired.
C19_HandshakeCompleted ==
    /\ FrameType = "transaction_result"
    /\ FrameSid \in DOMAIN sessions
    /\ sessions[FrameSid].status = "expired"
    /\ sessions[FrameSid].walletId = "W1"
    /\ sessions[FrameSid].connectedAt # NullDate
    /\ FrameSid \in DOMAIN connections
    /\ connections[FrameSid] = last.from
    /\ hist[FrameSid].inits = {last.from}
    /\ ~sockets[last.from].isBot
    /\ hist[FrameSid].dispatched
    /\ hist[FrameSid].completions = 1
    /\ \E b \in botConnections :
          \E m \in FramesTo(b, "transaction_completed") : m.success = TRUE

\* C20: a transaction_result and the sweep resolve by their order.  Handled
\* while the session is in the store and not expired (the sweep has not
\* removed it, however old it is), the result is accepted: the session
\* becomes expired and every open controller receives transaction_completed.
\* Handled when the session is no longer in the store, it is answered with
\* the error of an invalid session, nothing is broadcast and the store stays
\* as it is: no entry is made again.
C20_ReportOrSweepWins ==
    [][\A sid \in SessionIds :
       (FrameType' = "transaction_result" /\ FrameSid' = sid
           /\ Has(Frame', "success")) =>
       /\ (sid \in DOMAIN sessions /\ sessions[sid].status # "expired")
             => (/\ ~AnsweredError'
                 /\ sessions'[sid].status = "expired"
                 /\ \A b \in botConnections :
                       IsOpen(b) =>
                          \E m \in FramesTo(b, "transaction_completed")' :
                             m.sessionId = sid /\ m.success = Frame'.success)
       /\ sid \notin DOMAIN sessions
             => (/\ \E i \in SentOfType("error")' :
                       sent'[i].msg.message = "Invalid or expired session"
                 /\ SentOfType("transaction_completed")' = {}
                 /\ sessions' = sessions
                 /\ connections' = connections
                 /\ timers' = timers)]_vars

\* C20, its case: the sweep removed the session first, and the result sent
\* for it afterwards has just been refused.
C20_SweepWon ==
    /\ FrameType = "transaction_result"
    /\ Has(Frame, "success")
    /\ FrameSid \in SessionIds
    /\ FrameSid \notin DOMAIN sessions
    /\ hist[FrameSid].removedBy = "sweep"
    /\ AnsweredError

\* C21: while time advances and the callbacks that are due keep running, every
\* session id that is in the store is eventually in neither the store nor the
\* registry, whatever status its session was left in.
C21_EverySessionDestroyed ==
    \A sid \in SessionIds :
        (sid \in DOMAIN sessions)
            ~> (sid \notin DOMAIN sessions /\ sid \notin DOMAIN connections)

\* C21, its case: the sweep has just removed a session that was left in a
\* status other than expired, and nothing is stored any more.
C21_AbandonedSessionSwept ==
    /\ last.kind = "sweep"
    /\ last.unexpired # {}
    /\ sessions = EmptyMap
    /\ connections = EmptyMap
    /\ timers = {}

\* C22: a step that handles an init_session either moves the named session
\* from created to connected and maps its id to the sender in the registry,
\* leaving the other entries alone, or changes neither sessions nor the
\* registry; no other step adds an entry to the registry or replaces one.
C22_BindAtomicOnlyWriter ==
    [][/\ \A from \in Sockets, sid \in SessionIds :
            (FrameType' = "init_session" /\ last'.from = from /\ FrameSid' = sid)
              => \/ /\ sid \in DOMAIN sessions
                    /\ sessions[sid].status = "created"
                    /\ sid \in DOMAIN sessions'
                    /\ sessions'[sid].status = "connected"
                    /\ connections' = Put(connections, sid, from)
                 \/ /\ sessions' = sessions
                    /\ connections' = connections
       /\ (FrameType' = "init_session" /\ FrameSid' \notin SessionIds)
            => (sessions' = sessions /\ connections' = connections)
       /\ FrameType' # "init_session"
            => \A sid \in DOMAIN connections' :
                  sid \in DOMAIN connections /\ connections'[sid] = connections[sid]
      ]_vars

\* C22, its case: the last step accepted an init_session.
C22_BindAccepted ==
    /\ FrameType = "init_session"
    /\ SentOfType("session_initialized") # {}
    /\ FrameSid \in DOMAIN connections
    /\ connections[FrameSid] = last.from
    /\ sessions[FrameSid].status = "connected"

\* C23: no socket is the registered client socket of more than one session id.
C23_OneSessionPerSocket ==
    \A s1, s2 \in DOMAIN connections :
        connections[s1] = connections[s2] => s1 = s2

\* C24: no socket is both in the controller set and the registered client
\* socket of a session.
C24_RolesExclusive ==
    \A sid \in DOMAIN connections : connections[sid] \notin botConnections

\* the types handleMessage's switch has a case for
RecognizedTypes ==
    {"bot_connect", "create_session", "init_session", "wallet_connected",
     "process_transaction", "transaction_result", "ping"}

\* the words of the texts of the error frames
Words(text) ==
    CASE text = "Frontend not connected"
           -> {"Frontend", "not", "connected"}
      [] text = "Invalid message format"
           -> {"Invalid", "message", "format"}
      [] text = "Invalid or expired session"
           -> {"Invalid", "or", "expired", "session"}
      [] text = "Invalid session"
           -> {"Invalid", "session"}
      [] text = "Invalid session, wallet not connected, or session already used"
           -> {"Invalid", "session", "wallet", "not", "connected", "or", "already", "used"}
      [] text = "Missing required session data (sessionId, userId, chatId, username)"
           -> {"Missing", "required", "session", "data", "sessionId", "userId", "chatId", "username"}
      [] text = "Session ID and transaction data are required"
           -> {"Session", "ID", "and", "transaction", "data", "are", "required"}
      [] text = "Session ID and wallet ID required"
           -> {"Session", "ID", "and", "wallet", "required"}
      [] text = "Session ID is required"
           -> {"Session", "ID", "is", "required"}
      [] text = "Session already in use"
           -> {"Session", "already", "in", "use"}
      [] text = "Success status and session ID are required"
           -> {"Success", "status", "and", "session", "ID", "are", "required"}
      [] text = "Transaction data must include amount and receiver"
           -> {"Transaction", "data", "must", "include", "amount", "and", "receiver"}
      [] text = "Unknown message type"
           -> {"Unknown", "message", "type"}

\* C25: a frame that parses and whose type is not a recognized one is answered
\* with exactly one frame, an error frame to the sender whose message names
\* the type of the frame, and it changes no state of the relay.
C25_UnknownTypeNamed ==
    [][(FrameType' # Null /\ FrameType' \notin RecognizedTypes)
          => /\ Len(sent') = 1
             /\ sent'[1].to = last'.from
             /\ sent'[1].msg.type = "error"
             /\ FrameType' \in Words(sent'[1].msg.message)
             /\ Relay' = Relay]_vars

\* C26: a frame that does not parse is answered with an error frame, and a
\* step that answers the sender with an error frame leaves the sender open,
\* its flags, its controller membership and the registry as they were, and
\* changes nothing else of the relay, so that the frames the sender sends
\* next are handled as they would have been without the rejected one.
C26_RejectionKeepsSocket ==
    [][\A from \in Sockets :
          (last'.kind = "message" /\ last'.from = from)
            => /\ ~last'.message.parses => AnsweredError'
               /\ AnsweredError'
                    => /\ sockets'[from] = sockets[from]
                       /\ sockets'[from].readyState = "OPEN"
                       /\ (from \in botConnections') = (from \in botConnections)
                       /\ connections' = connections
                       /\ Relay' = Relay]_vars

\* C26, its case: a frame that does not parse, from a controller that is also
\* the registered client socket of a session, has just been answered.
C26_RejectedWhileRegistered ==
    /\ last.kind = "message"
    /\ ~last.message.parses
    /\ AnsweredError
    /\ last.from \in botConnections
    /\ \E sid \in DOMAIN connections : connections[sid] = last.from

\* the payloads with which the create_session frames for one id are accepted
PendingOf(sid) ==
    {d.transactionData : d \in {c \in CreateInputs :
                                   /\ c.sessionId = sid
                                   /\ ~CreateMissingFields(c)
                                   /\ ~CreateBadTransactionData(c)}}

\* C27: a create_session with sessionId, userId, chatId or username missing,
\* or with a transactionData that lacks amount or receiver, is answered with
\* an error frame and leaves the store as it was; an accepted one stores a
\* session with status created, null connectedAt, walletConnectedAt, walletId
\* and txnLink, and the transactionData of the frame; and the
\* session_initialized of an accepted init_session carries the transactionData
\* stored for the session, which is the one its create_session gave.
C27_CreateValidatedPayloadKept ==
    [][/\ FrameType' = "create_session"
            => LET d == last'.message.data IN
               IF CreateMissingFields(d) \/ CreateBadTransactionData(d)
               THEN AnsweredError' /\ sessions' = sessions
               ELSE /\ d.sessionId \in DOMAIN sessions'
                    /\ sessions'[d.sessionId].status = "created"
                    /\ sessions'[d.sessionId].connectedAt = NullDate
                    /\ sessions'[d.sessionId].walletConnectedAt = NullDate
                    /\ sessions'[d.sessionId].walletId = Null
                    /\ sessions'[d.sessionId].txnLink = Null
                    /\ sessions'[d.sessionId].transactionData = d.transactionData
       /\ \A sid \in SessionIds :
            (FrameType' = "init_session" /\ FrameSid' = sid)
              => \A i \in SentOfType("session_initialized")' :
                    /\ sent'[i].msg.transactionData = sessions[sid].transactionData
                    /\ sent'[i].msg.transactionData \in PendingOf(sid)]_vars

\* C27, its case: an init_session has just been answered with the payload
\* that the create_session of its session gave.
C27_PayloadDelivered ==
    /\ FrameType = "init_session"
    /\ \E i \in SentOfType("session_initialized") :
          sent[i].msg.transactionData = TxA

\* C28: a ping frame is answered with exactly one frame, a pong to the sender,
\* and leaves sessions, the registry and the controller set as they were.
C28_PingAnsweredOnce ==
    [][FrameType' = "ping"
          => /\ Len(sent') = 1
             /\ sent'[1].to = last'.from
             /\ sent'[1].msg.type = "pong"
             /\ sessions' = sessions
             /\ connections' = connections
             /\ botConnections' = botConnections]_vars

\* C28, its case: a ping from the registered client socket of a session has
\* just been answered.
C28_PingFromRegistered ==
    /\ FrameType = "ping"
    /\ SentOfType("pong") # {}
    /\ \E sid \in DOMAIN connections : connections[sid] = last.from

\* C29: a run of cleanupExpiredSessions leaves in place every session that is
\* not expired and not older than one hour, and the registry entry of such a
\* session.
C29_SweepSparesYoungSessions ==
    [][last'.kind = "sweep"
          => \A sid \in DOMAIN sessions :
                (/\ sessions[sid].status # "expired"
                 /\ now - sessions[sid].createdAt <= OneHour)
                  => /\ sid \in DOMAIN sessions'
                     /\ sessions'[sid] = sessions[sid]
                     /\ sid \in DOMAIN connections
                          => /\ sid \in DOMAIN connections'
                             /\ connections'[sid] = connections[sid]]_vars

\* C29, its case: the sweep has just run and left in place a session that is
\* exactly one hour old, not expired, and has a registered client socket.
C29_HourOldSessionSpared ==
    /\ last.kind = "sweep"
    /\ \E sid \in DOMAIN sessions \cap DOMAIN connections :
          /\ now - sessions[sid].createdAt = OneHour
          /\ sessions[sid].status # "expired"

\* C30: the close of a socket leaves in place every registry entry whose
\* value is another socket.
C30_CloseKeepsOthersBinding ==
    [][last'.kind = "close"
          => \A sid \in DOMAIN connections :
                connections[sid] # last'.from
                  => /\ sid \in DOMAIN connections'
                     /\ connections'[sid] = connections[sid]]_vars

\* C31: the callback of the delayed deletion removes only a session that a
\* transaction_result completed: when the record now stored under the id of
\* the timer was created after that result (reported is false for it), the
\* callback leaves the record and its registry entry in place.
C31_TimerRemovesOnlyCompleted ==
    [][\A sid \in SessionIds :
          (/\ last'.kind = "timer"
           /\ last'.sessionId = sid
           /\ sid \in DOMAIN sessions
           /\ ~hist[sid].reported)
            => /\ sid \in DOMAIN sessions'
               /\ sid \in DOMAIN connections => sid \in DOMAIN connections']_vars

\* C32: every session id that has an entry in the registry has a record in
\* the store, and the status of that record is not created.
C32_RegisteredMeansBound ==
    \A sid \in DOMAIN connections :
        /\ sid \in DOMAIN sessions
        /\ sessions[sid].status # "created"

\* C33: when the handling of a process_transaction answers transaction_sent,
\* it has sent the process_transaction frame to the registered client socket
\* of the session, and that socket is open.
C33_ConfirmedMeansForwarded ==
    SentOfType("transaction_sent") # {}
        => \E i \in SentOfType("process_transaction") :
              /\ FrameSid \in DOMAIN connections
              /\ sent[i].to = connections[FrameSid]
              /\ IsOpen(sent[i].to)

\* the number of frames of type t that the last step sent to socket ws
Copies(ws, t) == Cardinality({i \in SentOfType(t) : sent[i].to = ws})

\* C34: a bot_connect makes its sender a member of the controller set, and
\* from a socket that is a member already it changes nothing of the relay;
\* a broadcast sends each open member exactly one copy and no socket more
\* than one; the close of a socket takes it out of the controller set.
C34_RegistrationIdempotent ==
    [][\A ws \in Sockets :
          /\ (FrameType' = "bot_connect" /\ last'.from = ws)
               => /\ botConnections' = botConnections \cup {ws}
                  /\ ws \in botConnections => Relay' = Relay
          /\ (last'.kind = "message" /\ BroadcastSent')
               => /\ Copies(ws, BroadcastType(FrameType))' <= 1
                  /\ (ws \in botConnections /\ IsOpen(ws))
                       => Copies(ws, BroadcastType(FrameType))' = 1
          /\ (last'.kind = "close" /\ last'.from = ws)
               => ws \notin botConnections']_vars

\* C34, its case: a member of the controller set has just sent bot_connect
\* again.
C34_RegisteredAgain ==
    /\ FrameType = "bot_connect"
    /\ ~last.changed
    /\ last.from \in botConnections

\* the frame the client handled in its last step is an init_session
ClientInitHandled ==
    /\ walletWebSocketClient.call.op = "message"
    /\ walletWebSocketClient.call.frame.parses
    /\ walletWebSocketClient.call.frame.data.type = "init_session"

\* C35: in the WalletWebSocketClient, sessions holds at most one session per
\* userId; every userId in userToSession is mapped to an id that is in
\* sessions and whose session has that userId; no id that createSession
\* removed for a newer session of its user is in sessions; and an
\* init_session naming such an id is answered with one error frame.
C35_OneSessionPerUser ==
    LET c == walletWebSocketClient IN
    /\ \A s1, s2 \in DOMAIN c.sessions :
          c.sessions[s1].userId = c.sessions[s2].userId => s1 = s2
    /\ \A u \in DOMAIN c.userToSession :
          /\ c.userToSession[u] \in DOMAIN c.sessions
          /\ c.sessions[c.userToSession[u]].userId = u
    /\ c.replaced \cap DOMAIN c.sessions = {}
    /\ (ClientInitHandled /\ c.call.frame.data.sessionId \in c.replaced)
          => (Len(c.reply) = 1 /\ c.reply[1].type = "error")

\* C35, its case: an init_session naming the previous session id of a user
\* who has a newer session has just been answered.
C35_PreviousIdRefused ==
    LET c == walletWebSocketClient IN
    /\ ClientInitHandled
    /\ c.call.frame.data.sessionId \in c.replaced
    /\ \E u \in DOMAIN c.userToSession :
          c.userToSession[u] # c.call.frame.data.sessionId

====
